---- MODULE Spec2Model ----
(***************************************************************************)
(* Model of tetra3_pipeline.py: the generate-db and solve commands, the    *)
(* image-set expansion, the solve loop with its CSV sink, and main's       *)
(* mapping of outcomes to process exit codes.                              *)
(*                                                                         *)
(* Python values are encoded as strings ("True", "False", "None", "10.5"), *)
(* file names as sequences of characters, paths as sequences of parts.     *)
(***************************************************************************)
EXTENDS Integers, Sequences, FiniteSets, TLC

\* ------------------------------------------------------------------ bounds
MaxArgs == 2       \* length of args.images
MaxDirSize == 4    \* entries of the scanned directory
MaxImages == 3     \* expanded images of a modelled solve run

\* ---------------------------------------------------------- exit codes
ExitOk == 0
ExitUncaught == 1
ExitUnsupportedCatalog == 2
ExitCatalogFileMissing == 3
ExitDatabaseMissing == 4
ExitNoImages == 5
ExitInterrupt == 130
NoExit == -1

\* ------------------------------------------------------------ characters
\* The characters that occur in the modelled names, in code-point order.
Alphabet ==
    <<".", "/", "A", "a", "b", "c", "d", "e", "f", "g", "h", "i", "j", "m",
      "n", "o", "p", "s", "t", "x", "y", "~">>

Ord(c) == CHOOSE i \in 1..Len(Alphabet) : Alphabet[i] = c

Min2(a, b) == IF a < b THEN a ELSE b

\* Python's str.__lt__ on two names: lexicographic by code point.
StrLess(a, b) ==
    \E k \in 0..Min2(Len(a), Len(b)) :
        /\ \A i \in 1..k : a[i] = b[i]
        /\ \/ k = Len(a) /\ k < Len(b)
           \/ k < Len(a) /\ k < Len(b) /\ Ord(a[k + 1]) < Ord(b[k + 1])

\* PurePosixPath.__lt__: the lists of parts compared lexicographically.
PathLess(p, q) ==
    \E k \in 0..Min2(Len(p), Len(q)) :
        /\ \A i \in 1..k : p[i] = q[i]
        /\ \/ k = Len(p) /\ k < Len(q)
           \/ k < Len(p) /\ k < Len(q) /\ StrLess(p[k + 1], q[k + 1])

\* sorted() places x before the first element greater than it (stable).
RECURSIVE InsertSorted(_, _)
InsertSorted(x, s) ==
    IF s = <<>> THEN <<x>>
    ELSE IF PathLess(x, Head(s)) THEN <<x>> \o s
    ELSE <<Head(s)>> \o InsertSorted(x, Tail(s))

\* Faulty variant: the globbed paths are kept in the order the globs gave them.
Unsorted(s) == s

RECURSIVE Sorted(_)
Sorted(s) ==
    IF s = <<>> THEN <<>>
    ELSE InsertSorted(s[Len(s)], Sorted(SubSeq(s, 1, Len(s) - 1)))

\* str(path): the parts joined by "/".
RECURSIVE PathStr(_)
PathStr(p) ==
    IF p = <<>> THEN <<>>
    ELSE IF Len(p) = 1 THEN p[1]
    ELSE p[1] \o <<"/">> \o PathStr(Tail(p))

\* --------------------------------------------------------------- names
N_a_jpg == <<"a", ".", "j", "p", "g">>
N_b_png == <<"b", ".", "p", "n", "g">>
N_c_fits == <<"c", ".", "f", "i", "t", "s">>
N_d_txt == <<"d", ".", "t", "x", "t">>
N_s_png == <<"s", ".", "p", "n", "g">>
N_b_tif == <<"b", ".", "t", "i", "f">>
N_m_png == <<"m", ".", "p", "n", "g">>
N_y_png == <<"y", ".", "p", "n", "g">>
N_A == <<"A">>
N_tilde == <<"~">>
N_home == <<"h", "o", "m", "e">>
N_image == <<"i", "m", "a", "g", "e">>

DirA == <<N_A>>
HomeDir == <<N_home>>

File(n) == [name |-> n, kind |-> "file"]
SubDir(n) == [name |-> n, kind |-> "dir"]

\* What the scanned directory may hold: image files, a non-image file and a
\* subdirectory whose name ends like an image.
EntryUniverse ==
    {File(N_a_jpg), File(N_b_png), File(N_c_fits), File(N_d_txt),
     File(N_b_tif), SubDir(N_s_png)}

\* The directory of the specification's example, in listing order.
ExampleListing == <<File(N_b_png), File(N_a_jpg), File(N_c_fits), File(N_d_txt)>>

\* Directory listings (os.scandir order): entries without repetition.
Listings(n) ==
    UNION {{s \in [1..k -> EntryUniverse] : \A i, j \in 1..k : i # j => s[i] # s[j]}
           : k \in 0..n}

\* args.images: a directory, a file in it, a file that does not exist,
\* a file under the home directory written with "~".
ArgUniverse == {DirA, <<N_A, N_a_jpg>>, <<N_m_png>>, <<N_tilde, N_y_png>>}

ArgLists(n) == UNION {[1..k -> ArgUniverse] : k \in 1..n}

\* The whitelist of cmd_solve, in the order of its glob calls.
Patterns ==
    << <<".", "j", "p", "g">>, <<".", "j", "p", "e", "g">>, <<".", "p", "n", "g">>,
       <<".", "t", "i", "f">>, <<".", "t", "i", "f", "f">>, <<".", "b", "m", "p">>,
       <<".", "f", "i", "t", "s">> >>

EndsWith(s, suf) ==
    /\ Len(s) >= Len(suf)
    /\ SubSeq(s, Len(s) - Len(suf) + 1, Len(s)) = suf

\* Path.expanduser(): a leading "~" part becomes the home directory.
ExpandUser(p) ==
    IF p # <<>> /\ p[1] = N_tilde THEN HomeDir \o Tail(p) ELSE p

\* The file system the images live in: DirA lists `listing`, the home
\* directory holds y.png, every other directory is empty.
ListDir(listing, d) ==
    IF d = DirA THEN listing
    ELSE IF d = HomeDir THEN <<File(N_y_png)>>
    ELSE <<>>

\* the entries of that file system, each with the directory it is in
DirsOf(listing) == {DirA, HomeDir} \cup {DirA \o <<listing[i].name>> : i \in 1..Len(listing)}

\* Path.is_dir()
IsDir(listing, p) ==
    \/ p \in {DirA, HomeDir}
    \/ \E d \in DirsOf(listing) : \E i \in 1..Len(ListDir(listing, d)) :
          ListDir(listing, d)[i].kind = "dir" /\ p = d \o <<ListDir(listing, d)[i].name>>

\* pth.glob("*" + suf): the entries of pth whose name ends with suf, in
\* listing order, files and directories alike.
RECURSIVE GlobFrom(_, _, _, _)
GlobFrom(listing, pth, suf, i) ==
    IF i > Len(ListDir(listing, pth)) THEN <<>>
    ELSE (IF EndsWith(ListDir(listing, pth)[i].name, suf)
          THEN << pth \o <<ListDir(listing, pth)[i].name>> >> ELSE <<>>)
         \o GlobFrom(listing, pth, suf, i + 1)

Glob(listing, pth, suf) == GlobFrom(listing, pth, suf, 1)

\* [*pth.glob("*.jpg"), ..., *pth.glob("*.fits")]
RECURSIVE GlobAllFrom(_, _, _)
GlobAllFrom(listing, pth, k) ==
    IF k > Len(Patterns) THEN <<>>
    ELSE Glob(listing, pth, Patterns[k]) \o GlobAllFrom(listing, pth, k + 1)

\* Faulty variant: "*.png" is globbed a second time.
GlobAllRepeatsPng(listing, pth) ==
    GlobAllFrom(listing, pth, 1) \o Glob(listing, pth, Patterns[3])

GlobAll(listing, pth) == GlobAllFrom(listing, pth, 1)

\* The whole expansion loop of cmd_solve, as a function of its inputs.
RECURSIVE Expand(_, _)
Expand(listing, ps) ==
    IF ps = <<>> THEN <<>>
    ELSE LET pth == ExpandUser(Head(ps)) IN
         (IF IsDir(listing, pth) THEN Sorted(GlobAll(listing, pth)) ELSE <<pth>>)
         \o Expand(listing, Tail(ps))


\* ------------------------------------------------------------ the state
WorkDir == "/work"       \* the working directory the process starts in
CatDir == "/cat"         \* the other directory a catalog may live in
OutParent == "/out"      \* parent directory of args.output
CsvParent == "/csvdir"   \* parent directory of args.csv
CsvPath == "/csvdir/results.csv"

\* required = {...} of ensure_catalog_available
Required ==
    [hip_main |-> "hip_main.dat", tyc_main |-> "tyc_main.dat", bsc5 |-> "bsc5.dat"]

CatalogNames == {"hip_main", "tyc_main", "bsc5", "gaia"}
CatalogFiles == {"hip_main.dat", "tyc_main.dat", "bsc5.dat"}

NoExc == [type |-> "none", code |-> 0]
SystemExit(n) == [type |-> "SystemExit", code |-> n]
KeyboardInterrupt == [type |-> "KeyboardInterrupt", code |-> 0]
Error(t) == [type |-> t, code |-> 0]

Msg(t) == [tag |-> t, img |-> <<>>]
ImgMsg(t, p) == [tag |-> t, img |-> p]

NoRes == [unset |-> "True"]
AbsentFile == [exists |-> FALSE, rows |-> <<>>]
StaleFile == [exists |-> TRUE, rows |-> << <<N_m_png, "True", "1.0", "2.0", "3.0", "4.0">> >>]

\* writer.writerow(["image", "success", "ra_deg", "dec_deg", "rotation_deg", "fov_deg"])
Header == <<N_image, "success", "ra_deg", "dec_deg", "rotation_deg", "fov_deg">>

VARIABLES
    args,        \* the parsed command line
    pc,          \* the statement the invocation is at
    exc,         \* the exception propagating, NoExc when none
    exitCode,    \* the process exit status, NoExit while running
    console,     \* what was printed, in order
    cwd,         \* the process working directory
    prev,        \* pushd's saved directory, "None" outside pushd
    fsCat,       \* catalog files on disk: <<directory, file name>>
    fsDirs,      \* directories that exist
    fsListing,   \* the listing of DirA
    fsDb,        \* does the database file exist
    fsOut,       \* was the output database written
    fsCsv,       \* the CSV file on disk
    fs0,         \* the directories and the CSV file as they were before the run
    searchDirs,  \* search_dirs of ensure_catalog_available
    probes,      \* the directories probed for the catalog file, in order
    genCalls,    \* the calls of generate_database, each with its working directory
    images,      \* the expanded image list
    argIdx,      \* the argument the expansion loop is at
    dbLoads,     \* how often the database was loaded
    extract,     \* extract_dict
    csvFile,     \* the CSV handle: "none", "open", "closed"
    idx,         \* the image the solve loop is at
    res,         \* the solver's response for that image
    solverCalls  \* the calls of solve_from_image, in order, each with how it ended

vars ==
    <<args, pc, exc, exitCode, console, cwd, prev, fsCat, fsDirs, fsListing, fsDb,
      fsOut, fsCsv, fs0, searchDirs, probes, genCalls, images, argIdx, dbLoads, extract,
      csvFile, idx, res, solverCalls>>

fsVars == <<fsCat, fsListing, fsDb, fs0>>
genVars == <<prev, searchDirs, probes, genCalls, fsOut>>
solveVars == <<images, argIdx, dbLoads, extract, csvFile, idx, res, solverCalls, fsCsv>>

GenerateArgs(cat, dir) ==
    [cmd |-> "generate-db", star_catalog |-> cat, catalog_dir |-> dir,
     images |-> <<>>, csv |-> "None",
     fov_estimate |-> "35.0", fov_max_error |-> "1.5",
     min_sum |-> "500", max_axis_ratio |-> "1.5", min_distance |-> "4"]

SolveArgs(imgs, csv) ==
    [cmd |-> "solve", star_catalog |-> "hip_main", catalog_dir |-> "None",
     images |-> imgs, csv |-> csv,
     fov_estimate |-> "35.0", fov_max_error |-> "1.5",
     min_sum |-> "500", max_axis_ratio |-> "1.5", min_distance |-> "4"]

InitCommon ==
    /\ pc = "main"
    /\ exc = NoExc
    /\ exitCode = NoExit
    /\ console = <<>>
    /\ cwd = WorkDir
    /\ prev = "None"
    /\ fsOut = FALSE
    /\ searchDirs = <<>>
    /\ probes = <<>>
    /\ genCalls = <<>>
    /\ images = <<>>
    /\ argIdx = 1
    /\ dbLoads = 0
    /\ extract = NoRes
    /\ csvFile = "none"
    /\ idx = 1
    /\ res = NoRes
    /\ solverCalls = <<>>

\* A generate-db invocation: any catalog name, with or without a catalog
\* directory (which may be the working directory, and may not exist), any
\* placement of catalog files.
InitGenerate ==
    /\ InitCommon
    /\ \E cat \in CatalogNames, dir \in {"None", CatDir, WorkDir} :
          args = GenerateArgs(cat, dir)
    /\ fsCat \in SUBSET ({WorkDir, CatDir} \X CatalogFiles)
    /\ fsDirs \in {{WorkDir} \cup s : s \in SUBSET {CatDir, OutParent}}
    /\ (\E f \in CatalogFiles : <<CatDir, f>> \in fsCat) => CatDir \in fsDirs
    /\ fsListing = <<>>
    /\ fsDb = FALSE
    /\ fsCsv = AbsentFile
    /\ fs0 = [dirs |-> fsDirs, csv |-> fsCsv]

\* A solve invocation over the example directory; the arguments written with
\* "~" are those of InitExpand. Without --csv the CSV path is absent.
InitSolve ==
    /\ InitCommon
    /\ fsListing \in {SubSeq(ExampleListing, 1, n) : n \in 0..Min2(MaxDirSize, Len(ExampleListing))}
    /\ \E imgs \in ArgLists(MaxArgs), csv \in {"None", CsvPath} :
          /\ Len(Expand(fsListing, imgs)) <= MaxImages
          /\ \A i \in 1..Len(imgs) : imgs[i][1] # N_tilde
          /\ args = SolveArgs(imgs, csv)
    /\ fsCat = {}
    /\ fsDirs \in {{WorkDir}, {WorkDir, CsvParent}}
    /\ fsDb \in BOOLEAN
    /\ fsCsv \in {AbsentFile, StaleFile}
    /\ fsCsv.exists => CsvParent \in fsDirs
    /\ args.csv = "None" => fsDirs = {WorkDir}
    /\ fs0 = [dirs |-> fsDirs, csv |-> fsCsv]

Init == InitGenerate \/ InitSolve

\* ----------------------------------------------------------------- main
\* args.func(args)
MainCall ==
    /\ pc = "main"
    /\ pc' = IF args.cmd = "generate-db" THEN "g_mkdir" ELSE "s_dbcheck"
    /\ UNCHANGED <<args, exc, exitCode, console, cwd, fsVars, fsDirs, genVars, solveVars>>

\* return 0
MainReturn ==
    /\ pc = "m_return"
    /\ exitCode' = ExitOk
    /\ pc' = "exit"
    /\ UNCHANGED <<args, exc, console, cwd, fsVars, fsDirs, genVars, solveVars>>

\* except KeyboardInterrupt: print("Interrupted."); return 130
MainInterrupt ==
    /\ pc = "m_unwind"
    /\ exc.type = "KeyboardInterrupt"
    /\ console' = Append(console, Msg("Interrupted."))
    /\ exitCode' = ExitInterrupt
    /\ pc' = "exit"
    /\ UNCHANGED <<args, exc, cwd, fsVars, fsDirs, genVars, solveVars>>

\* Anything else leaves main: sys.exit(n) ends the process with n, an
\* uncaught error with the interpreter's status 1.
MainPropagate ==
    /\ pc = "m_unwind"
    /\ exc.type # "KeyboardInterrupt"
    /\ exitCode' = IF exc.type = "SystemExit" THEN exc.code ELSE ExitUncaught
    /\ pc' = "exit"
    /\ UNCHANGED <<args, exc, console, cwd, fsVars, fsDirs, genVars, solveVars>>

\* ---------------------------------------------------------- generate-db
\* out_path.parent.mkdir(parents=True, exist_ok=True)
GenMkdir ==
    /\ pc = "g_mkdir"
    /\ fsDirs' = fsDirs \cup {OutParent}
    /\ pc' = "e_check"
    /\ UNCHANGED <<args, exc, exitCode, console, cwd, fsVars, genVars, solveVars>>

\* ensure_catalog_available: if star_catalog not in required: sys.exit(2)
EnsureUnsupported ==
    /\ pc = "e_check"
    /\ args.star_catalog \notin DOMAIN Required
    /\ console' = Append(console, Msg("ERROR: Unsupported star_catalog"))
    /\ exc' = SystemExit(ExitUnsupportedCatalog)
    /\ pc' = "m_unwind"
    /\ UNCHANGED <<args, exitCode, cwd, fsVars, fsDirs, genVars, solveVars>>

\* Faulty variant: the working directory is searched before the catalog directory.
SearchDirsCwdFirst(catalog_dir, here) ==
    <<here>> \o (IF catalog_dir # "None" THEN <<catalog_dir>> ELSE <<>>)

\* search_dirs: the catalog directory when given, then Path.cwd()
SearchDirs(catalog_dir, here) ==
    (IF catalog_dir # "None" THEN <<catalog_dir>> ELSE <<>>) \o <<here>>

EnsureSearchDirs ==
    /\ pc = "e_check"
    /\ args.star_catalog \in DOMAIN Required
    /\ searchDirs' = SearchDirs(args.catalog_dir, cwd)
    /\ pc' = "e_probe"
    /\ UNCHANGED <<args, exc, exitCode, console, cwd, fsVars, fsDirs, prev, probes,
                   genCalls, fsOut, solveVars>>

\* (d / filename).exists()
CatalogFileIn(d) == <<d, Required[args.star_catalog]>> \in fsCat

\* for d in search_dirs: the file is there: return
EnsureProbeHit ==
    /\ pc = "e_probe"
    /\ Len(probes) < Len(searchDirs)
    /\ LET d == searchDirs[Len(probes) + 1] IN
          /\ CatalogFileIn(d)
          /\ probes' = Append(probes, d)
    /\ pc' = "g_print"
    /\ UNCHANGED <<args, exc, exitCode, console, cwd, fsVars, fsDirs, prev, searchDirs,
                   genCalls, fsOut, solveVars>>

\* for d in search_dirs: the file is not there: next directory
EnsureProbeMiss ==
    /\ pc = "e_probe"
    /\ Len(probes) < Len(searchDirs)
    /\ LET d == searchDirs[Len(probes) + 1] IN
          /\ ~CatalogFileIn(d)
          /\ probes' = Append(probes, d)
    /\ UNCHANGED <<args, pc, exc, exitCode, console, cwd, fsVars, fsDirs, prev, searchDirs,
                   genCalls, fsOut, solveVars>>

\* the acquisition hint of the catalog
Hint(cat) ==
    IF cat = "hip_main" THEN Msg("Download HIPPARCOS 'hip_main.dat'")
    ELSE IF cat = "bsc5" THEN Msg("Download the BSC5 byte-format file")
    ELSE Msg("Ensure you have the correct Tycho-2 main file")

\* the loop ended without a match: report, hint, sys.exit(3)
EnsureMissing ==
    /\ pc = "e_probe"
    /\ Len(probes) = Len(searchDirs)
    /\ console' = console \o <<Msg("ERROR: Required catalog file not found"),
                               Hint(args.star_catalog)>>
    /\ exc' = SystemExit(ExitCatalogFileMissing)
    /\ pc' = "m_unwind"
    /\ UNCHANGED <<args, exitCode, cwd, fsVars, fsDirs, genVars, solveVars>>

\* the configuration printed before the generation
GenPrint ==
    /\ pc = "g_print"
    /\ console' = Append(console, Msg("Generating database..."))
    /\ pc' = "g_enter"
    /\ UNCHANGED <<args, exc, exitCode, cwd, fsVars, fsDirs, genVars, solveVars>>

\* no catalog directory: _generate_db_core runs where the process is
GenNoPushd ==
    /\ pc = "g_enter"
    /\ args.catalog_dir = "None"
    /\ pc' = "g_call"
    /\ UNCHANGED <<args, exc, exitCode, console, cwd, fsVars, fsDirs, genVars, solveVars>>

\* with pushd(catalog_dir): prev = Path.cwd(); os.chdir(new_dir)
PushdEnter ==
    /\ pc = "g_enter"
    /\ args.catalog_dir # "None"
    /\ args.catalog_dir \in fsDirs
    /\ prev' = cwd
    /\ cwd' = args.catalog_dir
    /\ pc' = "g_call"
    /\ UNCHANGED <<args, exc, exitCode, console, fsVars, fsDirs, searchDirs, probes,
                   genCalls, fsOut, solveVars>>

\* os.chdir(new_dir) raises when the directory does not exist: the body of
\* the with statement never runs
PushdEnterFails ==
    /\ pc = "g_enter"
    /\ args.catalog_dir # "None"
    /\ args.catalog_dir \notin fsDirs
    /\ exc' = Error("FileNotFoundError")
    /\ pc' = "m_unwind"
    /\ UNCHANGED <<args, exitCode, console, cwd, fsVars, fsDirs, genVars, solveVars>>

GenCall == [cwd |-> cwd, star_catalog |-> args.star_catalog]

\* where control goes when _generate_db_core ends: pushd's finally, if any
AfterGenCall(raised) ==
    IF prev # "None" THEN "g_restore" ELSE IF raised THEN "m_unwind" ELSE "g_done"

\* t3.generate_database(...) returns: the database is written
GenerateReturns ==
    /\ pc = "g_call"
    /\ genCalls' = Append(genCalls, GenCall)
    /\ fsOut' = TRUE
    /\ pc' = AfterGenCall(FALSE)
    /\ UNCHANGED <<args, exc, exitCode, console, cwd, fsVars, fsDirs, prev, searchDirs,
                   probes, solveVars>>

\* t3.generate_database(...) raises
GenerateRaises ==
    /\ pc = "g_call"
    /\ genCalls' = Append(genCalls, GenCall)
    /\ exc' = Error("Exception")
    /\ pc' = AfterGenCall(TRUE)
    /\ UNCHANGED <<args, exitCode, console, cwd, fsVars, fsDirs, prev, searchDirs,
                   probes, fsOut, solveVars>>

\* the interrupt signal arrives during t3.generate_database(...)
GenerateInterrupted ==
    /\ pc = "g_call"
    /\ genCalls' = Append(genCalls, GenCall)
    /\ exc' = KeyboardInterrupt
    /\ pc' = AfterGenCall(TRUE)
    /\ UNCHANGED <<args, exitCode, console, cwd, fsVars, fsDirs, prev, searchDirs,
                   probes, fsOut, solveVars>>

\* Faulty variant: pushd without try/finally, the directory is restored only when
\* the body returned.
PushdRestoreOnReturnOnly ==
    /\ pc = "g_restore"
    /\ cwd' = IF exc = NoExc THEN prev ELSE cwd
    /\ pc' = IF exc = NoExc THEN "g_done" ELSE "m_unwind"
    /\ UNCHANGED <<args, exc, exitCode, console, fsVars, fsDirs, genVars, solveVars>>

\* pushd: finally: os.chdir(prev)
PushdRestore ==
    /\ pc = "g_restore"
    /\ cwd' = prev
    /\ pc' = IF exc = NoExc THEN "g_done" ELSE "m_unwind"
    /\ UNCHANGED <<args, exc, exitCode, console, fsVars, fsDirs, genVars, solveVars>>

\* print("[OK] Database created: ...")
GenDone ==
    /\ pc = "g_done"
    /\ console' = Append(console, Msg("[OK] Database created"))
    /\ pc' = "m_return"
    /\ UNCHANGED <<args, exc, exitCode, cwd, fsVars, fsDirs, genVars, solveVars>>

\* ----------------------------------------------------------------- solve
\* Faulty variant: the CSV file is opened before the database is tested.
SolveDbMissingAfterCsvOpen ==
    /\ pc = "s_dbcheck"
    /\ ~fsDb
    /\ fsCsv' = IF args.csv # "None" THEN [exists |-> TRUE, rows |-> <<>>] ELSE fsCsv
    /\ console' = Append(console, Msg("ERROR: Database file not found"))
    /\ exc' = SystemExit(ExitDatabaseMissing)
    /\ pc' = "m_unwind"
    /\ UNCHANGED <<args, exitCode, cwd, fsVars, fsDirs, genVars, images, argIdx,
                   dbLoads, extract, csvFile, idx, res, solverCalls>>

\* if not db_path.exists(): sys.exit(4)
SolveDbMissing ==
    /\ pc = "s_dbcheck"
    /\ ~fsDb
    /\ console' = Append(console, Msg("ERROR: Database file not found"))
    /\ exc' = SystemExit(ExitDatabaseMissing)
    /\ pc' = "m_unwind"
    /\ UNCHANGED <<args, exitCode, cwd, fsVars, fsDirs, genVars, solveVars>>

\* the database file exists: images = []
SolveDbPresent ==
    /\ pc = "s_dbcheck"
    /\ fsDb
    /\ images' = <<>>
    /\ argIdx' = 1
    /\ pc' = "s_expand"
    /\ UNCHANGED <<args, exc, exitCode, console, cwd, fsVars, fsDirs, genVars, dbLoads,
                   extract, csvFile, idx, res, solverCalls, fsCsv>>

\* for p in args.images: pth.is_dir(): images.extend(sorted([*globs]))
ExpandDir ==
    /\ pc = "s_expand"
    /\ argIdx <= Len(args.images)
    /\ LET pth == ExpandUser(args.images[argIdx]) IN
          /\ IsDir(fsListing, pth)
          /\ images' = images \o Sorted(GlobAll(fsListing, pth))
    /\ argIdx' = argIdx + 1
    /\ UNCHANGED <<args, pc, exc, exitCode, console, cwd, fsVars, fsDirs, genVars, dbLoads,
                   extract, csvFile, idx, res, solverCalls, fsCsv>>

\* for p in args.images: else: images.append(pth)
ExpandFile ==
    /\ pc = "s_expand"
    /\ argIdx <= Len(args.images)
    /\ LET pth == ExpandUser(args.images[argIdx]) IN
          /\ ~IsDir(fsListing, pth)
          /\ images' = Append(images, pth)
    /\ argIdx' = argIdx + 1
    /\ UNCHANGED <<args, pc, exc, exitCode, console, cwd, fsVars, fsDirs, genVars, dbLoads,
                   extract, csvFile, idx, res, solverCalls, fsCsv>>

\* Faulty variant: the empty image set ends the run with the code of the missing database.
SolveNoImagesExitsFour ==
    /\ pc = "s_expand"
    /\ argIdx > Len(args.images)
    /\ images = <<>>
    /\ console' = Append(console, Msg("ERROR: No images to solve."))
    /\ exc' = SystemExit(ExitDatabaseMissing)
    /\ pc' = "m_unwind"
    /\ UNCHANGED <<args, exitCode, cwd, fsVars, fsDirs, genVars, solveVars>>

\* Faulty variant: the database is loaded before the image list is tested.
SolveNoImagesAfterLoad ==
    /\ pc = "s_expand"
    /\ argIdx > Len(args.images)
    /\ images = <<>>
    /\ console' = console \o <<Msg("Loading database"), Msg("ERROR: No images to solve.")>>
    /\ dbLoads' = dbLoads + 1
    /\ exc' = SystemExit(ExitNoImages)
    /\ pc' = "m_unwind"
    /\ UNCHANGED <<args, exitCode, cwd, fsVars, fsDirs, genVars, images, argIdx,
                   extract, csvFile, idx, res, solverCalls, fsCsv>>

\* if not images: sys.exit(5)
SolveNoImages ==
    /\ pc = "s_expand"
    /\ argIdx > Len(args.images)
    /\ images = <<>>
    /\ console' = Append(console, Msg("ERROR: No images to solve."))
    /\ exc' = SystemExit(ExitNoImages)
    /\ pc' = "m_unwind"
    /\ UNCHANGED <<args, exitCode, cwd, fsVars, fsDirs, genVars, solveVars>>

\* t3 = tetra3.Tetra3(load_database=str(db_path))
SolveLoad ==
    /\ pc = "s_expand"
    /\ argIdx > Len(args.images)
    /\ images # <<>>
    /\ console' = Append(console, Msg("Loading database"))
    /\ dbLoads' = dbLoads + 1
    /\ pc' = "s_config"
    /\ UNCHANGED <<args, exc, exitCode, cwd, fsVars, fsDirs, genVars, images, argIdx,
                   extract, csvFile, idx, res, solverCalls, fsCsv>>

\* parse_extract_dict: the extraction parameters that are not None
ParseExtractDict(a) ==
    [k \in {j \in {"min_sum", "max_axis_ratio", "min_distance"} : a[j] # "None"} |-> a[k]]

\* extract_dict = parse_extract_dict(args), and the configuration printed
SolveConfig ==
    /\ pc = "s_config"
    /\ extract' = ParseExtractDict(args)
    /\ console' = Append(console, Msg("FOV estimate"))
    /\ pc' = "s_csv"
    /\ UNCHANGED <<args, exc, exitCode, cwd, fsVars, fsDirs, genVars, images, argIdx,
                   dbLoads, csvFile, idx, res, solverCalls, fsCsv>>

\* no --csv: writer = None; csv_file = None
CsvDisabled ==
    /\ pc = "s_csv"
    /\ args.csv = "None"
    /\ pc' = "s_loop"
    /\ UNCHANGED <<args, exc, exitCode, console, cwd, fsVars, fsDirs, genVars, solveVars>>

\* csv_path.parent.mkdir(...); csv_file = open(csv_path, "w", ...)
CsvOpen ==
    /\ pc = "s_csv"
    /\ args.csv # "None"
    /\ fsDirs' = fsDirs \cup {CsvParent}
    /\ fsCsv' = [exists |-> TRUE, rows |-> <<>>]
    /\ csvFile' = "open"
    /\ pc' = "s_header"
    /\ UNCHANGED <<args, exc, exitCode, console, cwd, fsVars, genVars, images, argIdx,
                   dbLoads, extract, idx, res, solverCalls>>

WriteRow(row) == [fsCsv EXCEPT !.rows = Append(@, row)]

\* writer.writerow([header]), which no try statement covers
CsvHeader ==
    /\ pc = "s_header"
    /\ fsCsv' = WriteRow(Header)
    /\ pc' = "s_loop"
    /\ UNCHANGED <<args, exc, exitCode, console, cwd, fsVars, fsDirs, genVars, images,
                   argIdx, dbLoads, extract, csvFile, idx, res, solverCalls>>

\* writing the header raises, or the interrupt signal arrives there: the
\* exception leaves cmd_solve from line 160
HeaderAborts(e) ==
    /\ pc = "s_header"
    /\ exc' = e
    /\ pc' = "m_unwind"
    /\ UNCHANGED <<args, exitCode, console, cwd, fsVars, fsDirs, genVars, solveVars>>

CsvHeaderFails == HeaderAborts(Error("OSError"))

CsvHeaderInterrupted == HeaderAborts(KeyboardInterrupt)

\* the solver's possible responses: a match, no match without positions,
\* no match with positions, a response without a success entry
SolverResponses ==
    {[success |-> "True", ra_deg |-> "10.5", dec_deg |-> "-20.25",
      rotation_deg |-> "30.0", fov_deg |-> "35.1"],
     [success |-> "False"],
     [success |-> "False", ra_deg |-> "10.5", dec_deg |-> "-20.25",
      rotation_deg |-> "30.0", fov_deg |-> "35.1"],
     [ra_deg |-> "10.5", dec_deg |-> "-20.25", rotation_deg |-> "30.0",
      fov_deg |-> "35.1"]}

\* t3.solve_from_image(str(img), fov_estimate=..., fov_max_error=..., extract_dict=...)
SolverCall(img) ==
    [img |-> PathStr(img), fov_estimate |-> args.fov_estimate,
     fov_max_error |-> args.fov_max_error, extract_dict |-> extract]

\* one entry of the call log
Logged(call, outcome, response) ==
    [call |-> call, outcome |-> outcome, response |-> response]

\* for img in images: exhausted
LoopEnd ==
    /\ pc = "s_loop"
    /\ idx > Len(images)
    /\ pc' = "s_finally"
    /\ UNCHANGED <<args, exc, exitCode, console, cwd, fsVars, fsDirs, genVars, solveVars>>

\* print("Solving: ..."); res = t3.solve_from_image(...) returns
SolveReturns ==
    /\ pc = "s_loop"
    /\ idx <= Len(images)
    /\ console' = Append(console, ImgMsg("Solving", PathStr(images[idx])))
    /\ \E r \in SolverResponses :
          /\ res' = r
          /\ solverCalls' = Append(solverCalls, Logged(SolverCall(images[idx]), "returned", r))
    /\ pc' = "s_record"
    /\ UNCHANGED <<args, exc, exitCode, cwd, fsVars, fsDirs, genVars, images, argIdx,
                   dbLoads, extract, csvFile, idx, fsCsv>>

\* t3.solve_from_image(...) raises an Exception
SolveRaises ==
    /\ pc = "s_loop"
    /\ idx <= Len(images)
    /\ console' = Append(console, ImgMsg("Solving", PathStr(images[idx])))
    /\ solverCalls' = Append(solverCalls, Logged(SolverCall(images[idx]), "raised", NoRes))
    /\ pc' = "s_except"
    /\ UNCHANGED <<args, exc, exitCode, cwd, fsVars, fsDirs, genVars, images, argIdx,
                   dbLoads, extract, csvFile, idx, res, fsCsv>>

\* Faulty variant: a bare except clause, which catches the interrupt like an error.
SolveInterruptedCaught ==
    /\ pc = "s_loop"
    /\ idx <= Len(images)
    /\ console' = Append(console, ImgMsg("Solving", PathStr(images[idx])))
    /\ solverCalls' = Append(solverCalls, Logged(SolverCall(images[idx]), "interrupted", NoRes))
    /\ pc' = "s_except"
    /\ UNCHANGED <<args, exc, exitCode, cwd, fsVars, fsDirs, genVars, images, argIdx,
                   dbLoads, extract, csvFile, idx, res, fsCsv>>

\* the interrupt signal arrives during t3.solve_from_image(...):
\* KeyboardInterrupt is no Exception, the except clause lets it pass
SolveInterrupted ==
    /\ pc = "s_loop"
    /\ idx <= Len(images)
    /\ console' = Append(console, ImgMsg("Solving", PathStr(images[idx])))
    /\ solverCalls' = Append(solverCalls, Logged(SolverCall(images[idx]), "interrupted", NoRes))
    /\ exc' = KeyboardInterrupt
    /\ pc' = "s_finally"
    /\ UNCHANGED <<args, exitCode, cwd, fsVars, fsDirs, genVars, images, argIdx,
                   dbLoads, extract, csvFile, idx, res, fsCsv>>

\* writer.writerow([str(img), False, "", "", "", ""])
ErrorRow(img) == <<PathStr(img), "False", "", "", "", "">>

\* Faulty variant: the except clause reports the error and raises it again.
SolveExceptReraises ==
    /\ pc = "s_except"
    /\ console' = Append(console, ImgMsg("ERROR during solve", PathStr(images[idx])))
    /\ exc' = Error("Exception")
    /\ pc' = "s_finally"
    /\ UNCHANGED <<args, exitCode, cwd, fsVars, fsDirs, genVars, solveVars>>

\* Faulty variant: the except clause continues without writing the failed row.
SolveExceptNoRow ==
    /\ pc = "s_except"
    /\ console' = Append(console, ImgMsg("ERROR during solve", PathStr(images[idx])))
    /\ idx' = idx + 1
    /\ pc' = "s_loop"
    /\ UNCHANGED <<args, exc, exitCode, cwd, fsVars, fsDirs, genVars, images, argIdx,
                   dbLoads, extract, csvFile, res, solverCalls, fsCsv>>

\* Faulty variant: the first raising solve is tried again.
SolveExceptRetries ==
    /\ pc = "s_except"
    /\ console' = Append(console, ImgMsg("ERROR during solve", PathStr(images[idx])))
    /\ fsCsv' = IF csvFile = "open" /\ Len(solverCalls) # idx
                THEN WriteRow(ErrorRow(images[idx])) ELSE fsCsv
    /\ idx' = IF Len(solverCalls) = idx THEN idx ELSE idx + 1
    /\ pc' = "s_loop"
    /\ UNCHANGED <<args, exc, exitCode, cwd, fsVars, fsDirs, genVars, images, argIdx,
                   dbLoads, extract, csvFile, res, solverCalls>>

\* except Exception: print, write the failed row if there is a writer, continue
SolveExcept ==
    /\ pc = "s_except"
    /\ console' = Append(console, ImgMsg("ERROR during solve", PathStr(images[idx])))
    /\ fsCsv' = IF csvFile = "open" THEN WriteRow(ErrorRow(images[idx])) ELSE fsCsv
    /\ idx' = idx + 1
    /\ pc' = "s_loop"
    /\ UNCHANGED <<args, exc, exitCode, cwd, fsVars, fsDirs, genVars, images, argIdx,
                   dbLoads, extract, csvFile, res, solverCalls>>

\* the write of the failed row raises: the error leaves the except clause
SolveExceptWriteFails ==
    /\ pc = "s_except"
    /\ csvFile = "open"
    /\ console' = Append(console, ImgMsg("ERROR during solve", PathStr(images[idx])))
    /\ exc' = Error("OSError")
    /\ pc' = "s_finally"
    /\ UNCHANGED <<args, exitCode, cwd, fsVars, fsDirs, genVars, solveVars>>

\* dict.get(key, default)
Get(d, key, default) == IF key \in DOMAIN d THEN d[key] ELSE default

\* bool(x) of an encoded Python value
Truthy(v) == v \notin {"False", "None", "", "0", "0.0"}

\* str(b) of a Python bool
BoolStr(b) == IF b THEN "True" ELSE "False"

\* the csv writer's cell for a value: None is written as the empty string
CsvCell(v) == IF v = "None" THEN "" ELSE v

\* Faulty variant: a call that returned counts as solved.
SuccessIfReturned(r) == TRUE

\* success = bool(res.get("success", False))
Success(r) == Truthy(Get(r, "success", "False"))

\* writer.writerow([str(img), success, ra, dec, rot, fov])
ResultRow(img, r) ==
    <<PathStr(img), BoolStr(Success(r)), CsvCell(Get(r, "ra_deg", "")),
      CsvCell(Get(r, "dec_deg", "")), CsvCell(Get(r, "rotation_deg", "")),
      CsvCell(Get(r, "fov_deg", ""))>>

\* Faulty variant: a response without success ends the run with sys.exit(1).
SolveRecordFatalOnFailure ==
    /\ pc = "s_record"
    /\ console' = Append(console,
                         ImgMsg(IF Success(res) THEN "SUCCESS" ELSE "FAILED",
                                PathStr(images[idx])))
    /\ fsCsv' = IF csvFile = "open" THEN WriteRow(ResultRow(images[idx], res)) ELSE fsCsv
    /\ idx' = idx + 1
    /\ exc' = IF Success(res) THEN exc ELSE SystemExit(ExitUncaught)
    /\ pc' = IF Success(res) THEN "s_loop" ELSE "s_finally"
    /\ UNCHANGED <<args, exitCode, cwd, fsVars, fsDirs, genVars, images, argIdx,
                   dbLoads, extract, csvFile, res, solverCalls>>

\* Faulty variant: a result that is not a success prints nothing.
SolveRecordSilentOnFailure ==
    /\ pc = "s_record"
    /\ console' = IF Success(res)
                  THEN Append(console, ImgMsg("SUCCESS", PathStr(images[idx])))
                  ELSE console
    /\ fsCsv' = IF csvFile = "open" THEN WriteRow(ResultRow(images[idx], res)) ELSE fsCsv
    /\ idx' = idx + 1
    /\ pc' = "s_loop"
    /\ UNCHANGED <<args, exc, exitCode, cwd, fsVars, fsDirs, genVars, images, argIdx,
                   dbLoads, extract, csvFile, res, solverCalls>>

\* the solver returned: read the response, print SUCCESS or FAILED, write the row
SolveRecord ==
    /\ pc = "s_record"
    /\ console' = Append(console,
                         ImgMsg(IF Success(res) THEN "SUCCESS" ELSE "FAILED",
                                PathStr(images[idx])))
    /\ fsCsv' = IF csvFile = "open" THEN WriteRow(ResultRow(images[idx], res)) ELSE fsCsv
    /\ idx' = idx + 1
    /\ pc' = "s_loop"
    /\ UNCHANGED <<args, exc, exitCode, cwd, fsVars, fsDirs, genVars, images, argIdx,
                   dbLoads, extract, csvFile, res, solverCalls>>

\* the write of the result row raises: the error leaves the loop
SolveRecordWriteFails ==
    /\ pc = "s_record"
    /\ csvFile = "open"
    /\ console' = Append(console,
                         ImgMsg(IF Success(res) THEN "SUCCESS" ELSE "FAILED",
                                PathStr(images[idx])))
    /\ exc' = Error("OSError")
    /\ pc' = "s_finally"
    /\ UNCHANGED <<args, exitCode, cwd, fsVars, fsDirs, genVars, solveVars>>

\* finally: if csv_path: csv_file.close(); print("[OK] Results saved to CSV")
SolveFinally ==
    /\ pc = "s_finally"
    /\ IF args.csv # "None"
       THEN /\ csvFile' = "closed"
            /\ console' = Append(console, Msg("[OK] Results saved to CSV"))
       ELSE UNCHANGED <<csvFile, console>>
    /\ pc' = IF exc = NoExc THEN "m_return" ELSE "m_unwind"
    /\ UNCHANGED <<args, exc, exitCode, cwd, fsVars, fsDirs, genVars, images, argIdx,
                   dbLoads, extract, idx, res, solverCalls, fsCsv>>

\* ------------------------------------------------------- specifications
Next ==
    \/ MainCall \/ MainReturn \/ MainInterrupt \/ MainPropagate
    \/ GenMkdir \/ EnsureUnsupported \/ EnsureSearchDirs \/ EnsureProbeHit
    \/ EnsureProbeMiss \/ EnsureMissing \/ GenPrint \/ GenNoPushd \/ PushdEnter
    \/ PushdEnterFails \/ GenerateReturns \/ GenerateRaises \/ GenerateInterrupted
    \/ PushdRestore \/ GenDone
    \/ SolveDbMissing \/ SolveDbPresent \/ ExpandDir \/ ExpandFile \/ SolveNoImages
    \/ SolveLoad \/ SolveConfig \/ CsvDisabled \/ CsvOpen \/ CsvHeader \/ CsvHeaderFails
    \/ CsvHeaderInterrupted \/ LoopEnd \/ SolveReturns \/ SolveRaises \/ SolveInterrupted
    \/ SolveExcept \/ SolveExceptWriteFails \/ SolveRecord \/ SolveRecordWriteFails
    \/ SolveFinally

Spec == Init /\ [][Next]_vars

\* The image-set expansion alone, over every listing of the directory.
InitExpand ==
    /\ InitCommon
    /\ fsListing \in Listings(MaxDirSize)
    /\ \E imgs \in ArgLists(MaxArgs) : args = SolveArgs(imgs, "None")
    /\ fsCat = {}
    /\ fsDirs = {WorkDir}
    /\ fsDb = TRUE
    /\ fsCsv = AbsentFile
    /\ fs0 = [dirs |-> fsDirs, csv |-> fsCsv]

NextExpand ==
    \/ MainCall \/ SolveDbPresent \/ ExpandDir \/ ExpandFile \/ SolveNoImages
    \/ MainPropagate

SpecExpand == InitExpand /\ [][NextExpand]_vars

\* ------------------------------------------------------------ properties
Solving == args.cmd = "solve"
Generating == args.cmd = "generate-db"
CsvOn == args.csv # "None"
Ended == pc = "exit"
Interrupted == exc.type = "KeyboardInterrupt"
WriteFailed == exc.type = "OSError"

\* the lines printed about the outcome of an image
OutcomeTags == {"SUCCESS", "FAILED", "ERROR during solve"}
IsOutcomeMsg(m) == m.tag \in OutcomeTags
OutcomeMsgs == SelectSeq(console, IsOutcomeMsg)

\* the row a failed result has: success false, the four positions empty
FailedRow(i) == <<PathStr(images[i]), "False", "", "", "", "">>

\* C1: a solver error for image i is caught (no Exception ever propagates out
\* of a solve run); once its handler is done the result of image i is reported
\* and, with a CSV, recorded as success=false with ra_deg, dec_deg,
\* rotation_deg and fov_deg empty; and a run that ends without an interrupt
\* or a failing write has submitted every image, in order, to the solver.
C1_SolverErrorIsolated ==
    /\ Solving => exc.type # "Exception"
    /\ \A i \in 1..Len(solverCalls) :
          (solverCalls[i].outcome = "raised" /\ ~WriteFailed) =>
             /\ i < idx =>
                   /\ Len(OutcomeMsgs) >= i
                   /\ OutcomeMsgs[i] = ImgMsg("ERROR during solve", PathStr(images[i]))
                   /\ csvFile # "none" => fsCsv.rows[i + 1] = FailedRow(i)
             /\ (Ended /\ ~Interrupted) =>
                   /\ exitCode = ExitOk
                   /\ Len(solverCalls) = Len(images)
                   /\ \A j \in (i + 1)..Len(images) :
                         solverCalls[j].call.img = PathStr(images[j])

\* the second of three images raised, and the run went on to the third
C1_Witness ==
    /\ Ended /\ Solving /\ CsvOn /\ exitCode = ExitOk
    /\ Len(images) = 3 /\ Len(solverCalls) = 3
    /\ solverCalls[2].outcome = "raised"
    /\ solverCalls[3].outcome = "returned"
    /\ fsCsv.rows[3] = FailedRow(2)

\* the loop of cmd_solve ran to its end
LoopCompleted == Solving /\ pc \in {"s_finally", "m_return", "exit"} /\ exc = NoExc

\* C2: with CSV logging, at every point of the run the file is the header
\* followed by rows whose image cells are a prefix of the expanded image
\* sequence, one row per image already handled; when the loop has completed
\* there are exactly N data rows after the one header row.
C2_CsvRowsFollowImages ==
    csvFile # "none" =>
       /\ Len(fsCsv.rows) <= Len(images) + 1
       /\ \A k \in 1..Len(fsCsv.rows) :
             IF k = 1 THEN fsCsv.rows[k] = Header
             ELSE /\ fsCsv.rows[k][1] = PathStr(images[k - 1])
                  /\ fsCsv.rows[k] # Header
       /\ pc = "s_loop" => Len(fsCsv.rows) = idx
       /\ LoopCompleted => Len(fsCsv.rows) = Len(images) + 1

\* three images, one raised, one returned without a match: three data rows
C2_Witness ==
    /\ LoopCompleted /\ Ended /\ CsvOn
    /\ Len(images) = 3 /\ Len(fsCsv.rows) = 4
    /\ \E i, j \in 1..3 :
          /\ solverCalls[i].outcome = "raised"
          /\ solverCalls[j].outcome = "returned" /\ ~Success(solverCalls[j].response)

\* C3 (as claimed): when the invocation has ended, a CSV destination that
\* was opened is closed.
C3_CsvClosedOnEveryExit == Ended => csvFile # "open"

\* the directories the claim has searched, in the claimed order
ClaimedSearchOrder ==
    (IF args.catalog_dir # "None" THEN <<args.catalog_dir>> ELSE <<>>) \o <<WorkDir>>

Supported == args.star_catalog \in {"hip_main", "tyc_main", "bsc5"}

\* directory d holds the file the chosen catalog needs
HoldsCatalog(d) == <<d, Required[args.star_catalog]>> \in fsCat

NoneHoldsCatalog ==
    \A i \in 1..Len(ClaimedSearchOrder) : ~HoldsCatalog(ClaimedSearchOrder[i])

\* C4: in a generate-db run with a catalog directory the working directory
\* differs from the initial one only while the generation call is under way
\* (and is then the catalog directory, as for every generation call made);
\* when the run has ended it is the initial directory again, also when the
\* generation raised, in which case the run ends with a failure status and
\* no success line.
C4_CwdRestored ==
    (Generating /\ args.catalog_dir # "None") =>
       /\ cwd # WorkDir => (pc \in {"g_call", "g_restore"} /\ cwd = args.catalog_dir)
       /\ pc = "g_call" => cwd = args.catalog_dir
       /\ \A i \in 1..Len(genCalls) : genCalls[i].cwd = args.catalog_dir
       /\ Ended => cwd = WorkDir
       /\ (Ended /\ exc.type = "Exception") =>
             /\ genCalls # <<>>
             /\ exitCode \notin {ExitOk, NoExit}
             /\ \A i \in 1..Len(console) : console[i] # Msg("[OK] Database created")

\* the generation raised inside the catalog directory and the run ended
C4_Witness ==
    /\ Ended /\ Generating /\ args.catalog_dir = CatDir
    /\ exc.type = "Exception"
    /\ Len(genCalls) = 1 /\ genCalls[1].cwd = CatDir
    /\ cwd = WorkDir

\* C5: the six exit codes are pairwise distinct, and a run that has ended has
\* each of them exactly in its own case: unsupported catalog name, missing
\* catalog file, missing database file, empty image set, completion, interrupt.
C5_ExitCodes ==
    /\ Cardinality({ExitOk, ExitInterrupt, ExitUnsupportedCatalog,
                    ExitCatalogFileMissing, ExitDatabaseMissing, ExitNoImages}) = 6
    /\ Ended =>
          /\ exitCode = ExitUnsupportedCatalog <=> (Generating /\ ~Supported)
          /\ exitCode = ExitCatalogFileMissing <=>
                (Generating /\ Supported /\ NoneHoldsCatalog)
          /\ exitCode = ExitDatabaseMissing <=> (Solving /\ ~fsDb)
          /\ exitCode = ExitNoImages <=>
                (Solving /\ fsDb /\ Expand(fsListing, args.images) = <<>>)
          /\ exitCode = ExitOk <=> exc = NoExc
          /\ exitCode = ExitInterrupt <=> Interrupted

\* a run over an empty directory, with the database present, has ended
C5_Witness ==
    /\ Ended /\ Solving /\ fsDb
    /\ Expand(fsListing, args.images) = <<>>
    /\ exitCode = ExitNoImages

\* C6: a solve run with the database present and a non-empty batch, which no
\* interrupt and no failing CSV write ended, exits with 0 whatever the solver
\* did for each image.
C6_SolveFailuresNotFatal ==
    (/\ Solving /\ Ended /\ fsDb
     /\ Expand(fsListing, args.images) # <<>>
     /\ ~Interrupted /\ ~WriteFailed)
    => exitCode = ExitOk

\* one image raised, one had no match, one was solved: exit code 0
C6_Witness ==
    /\ Solving /\ Ended /\ exitCode = ExitOk
    /\ Len(solverCalls) = 3
    /\ solverCalls[1].outcome = "raised"
    /\ solverCalls[2].outcome = "returned" /\ ~Success(solverCalls[2].response)
    /\ solverCalls[3].outcome = "returned" /\ Success(solverCalls[3].response)

\* C7 (as claimed): a solve run whose expanded image sequence is empty ends
\* with the NoImagesFound code and loads no database, whether or not the
\* database file exists.
C7_EmptySetAlwaysNoImages ==
    (Solving /\ Ended /\ Expand(fsListing, args.images) = <<>>) =>
       (exitCode = ExitNoImages /\ dbLoads = 0)

\* C7 (amended): a solve run whose expanded image sequence is empty never
\* loads a database; it ends with the NoImagesFound code when the database
\* file exists and with the missing-database code when it does not.
C7_EmptySetNoImagesIfDbPresent ==
    (Solving /\ Expand(fsListing, args.images) = <<>>) =>
       /\ dbLoads = 0
       /\ Ended => exitCode = (IF fsDb THEN ExitNoImages ELSE ExitDatabaseMissing)

\* an empty directory as the sole argument, the database present
C7_Witness ==
    /\ Ended /\ Solving /\ fsDb
    /\ args.images = <<DirA>> /\ fsListing = <<>>
    /\ exitCode = ExitNoImages /\ dbLoads = 0

\* C8: for a supported catalog the probes follow the claimed order (catalog
\* directory, then working directory), stop at the first directory that
\* holds the file, and the check fails with CatalogFileMissing exactly when
\* no search directory holds it; after an UnsupportedCatalog or
\* CatalogFileMissing failure no generation call has been made.
C8_CatalogSearch ==
    /\ (Generating /\ Supported) =>
          /\ Len(probes) <= Len(ClaimedSearchOrder)
          /\ probes = SubSeq(ClaimedSearchOrder, 1, Len(probes))
          /\ \A i \in 1..(Len(probes) - 1) : ~HoldsCatalog(probes[i])
          /\ pc \notin {"main", "g_mkdir", "e_check", "e_probe"} =>
                /\ exc = SystemExit(ExitCatalogFileMissing) <=> NoneHoldsCatalog
                /\ ~NoneHoldsCatalog => HoldsCatalog(probes[Len(probes)])
    /\ (Generating /\ exc.type = "SystemExit") =>
          /\ exc.code \in {ExitUnsupportedCatalog, ExitCatalogFileMissing}
          /\ genCalls = <<>>

\* the file is in the catalog directory and, stale, in the working
\* directory: one probe, of the catalog directory
C8_Witness ==
    /\ Generating /\ Supported /\ args.catalog_dir = CatDir
    /\ HoldsCatalog(CatDir) /\ HoldsCatalog(WorkDir)
    /\ pc = "g_print" /\ probes = <<CatDir>>

\* the row the run wrote for call j, by how the call ended
WrittenRow(j) ==
    IF solverCalls[j].outcome = "raised" THEN FailedRow(j)
    ELSE ResultRow(images[j], solverCalls[j].response)

\* C9: an interrupt during the solver call for image k ends the run: the
\* call is the last one, the loop does not advance, no outcome is reported
\* and no row written for image k, the rows of the images before k are in
\* the CSV, the CSV is closed once cmd_solve is left, and the exit code is 130.
C9_InterruptAbortsRun ==
    \A k \in 1..Len(solverCalls) :
       solverCalls[k].outcome = "interrupted" =>
          /\ k = Len(solverCalls)
          /\ idx = k
          /\ pc \in {"s_finally", "m_unwind", "exit"}
          /\ exc = KeyboardInterrupt
          /\ Len(OutcomeMsgs) = k - 1
          /\ csvFile # "none" =>
                /\ Len(fsCsv.rows) = k
                /\ \A j \in 1..(k - 1) : fsCsv.rows[j + 1] = WrittenRow(j)
          /\ (pc \in {"m_unwind", "exit"} /\ CsvOn) => csvFile = "closed"
          /\ Ended => exitCode = ExitInterrupt

\* the interrupt came during the second of three images
C9_Witness ==
    /\ Ended /\ Solving /\ CsvOn /\ exitCode = ExitInterrupt
    /\ Len(images) = 3 /\ Len(solverCalls) = 2
    /\ solverCalls[2].outcome = "interrupted"
    /\ csvFile = "closed" /\ Len(fsCsv.rows) = 2

\* the extension of a name: from its last "." on
Extension(n) ==
    LET dots == {i \in 1..Len(n) : n[i] = "."} IN
    IF dots = {} THEN <<>>
    ELSE SubSeq(n, CHOOSE i \in dots : \A j \in dots : j <= i, Len(n))

Whitelist ==
    {<<".", "j", "p", "g">>, <<".", "j", "p", "e", "g">>, <<".", "p", "n", "g">>,
     <<".", "t", "i", "f">>, <<".", "t", "i", "f", "f">>, <<".", "b", "m", "p">>,
     <<".", "f", "i", "t", "s">>}

\* the paths of a set in ascending order, each once
RECURSIVE Ascending(_)
Ascending(S) ==
    IF S = {} THEN <<>>
    ELSE LET m == CHOOSE x \in S : \A y \in S \ {x} : PathLess(x, y)
         IN <<m>> \o Ascending(S \ {m})

\* the entries of directory d with a whitelisted extension, of the given kinds
ImagesIn(listing, d, kinds) ==
    {d \o <<ListDir(listing, d)[i].name>> :
        i \in {j \in 1..Len(ListDir(listing, d)) :
                  /\ ListDir(listing, d)[j].kind \in kinds
                  /\ Extension(ListDir(listing, d)[j].name) \in Whitelist}}

\* the claimed segment of an argument: the image files of a directory in
\* order, or the argument itself
FilesSegment(listing, arg) ==
    IF IsDir(listing, arg) THEN Ascending(ImagesIn(listing, arg, {"file"}))
    ELSE <<arg>>

RECURSIVE FilesExpansion(_, _)
FilesExpansion(listing, ps) ==
    IF ps = <<>> THEN <<>>
    ELSE FilesSegment(listing, Head(ps)) \o FilesExpansion(listing, Tail(ps))

\* the segment of an argument after "~" expansion, with every entry of a
\* directory that is named like an image
EntriesSegment(listing, arg) ==
    IF IsDir(listing, ExpandUser(arg))
    THEN Ascending(ImagesIn(listing, ExpandUser(arg), {"file", "dir"}))
    ELSE <<ExpandUser(arg)>>

RECURSIVE EntriesExpansion(_, _)
EntriesExpansion(listing, ps) ==
    IF ps = <<>> THEN <<>>
    ELSE EntriesSegment(listing, Head(ps)) \o EntriesExpansion(listing, Tail(ps))

\* C10 (as claimed): throughout the expansion loop the image list is the
\* concatenation, in argument order, of the segments of the arguments handled
\* so far: for a directory its files with a whitelisted extension in
\* lexicographic order, each once; for any other argument the argument verbatim.
C10_ExpansionVerbatimFiles ==
    pc = "s_expand" =>
       images = FilesExpansion(fsListing, SubSeq(args.images, 1, argIdx - 1))

\* C10 (amended): the same with every argument taken after "~" expansion and
\* a directory contributing every entry, file or subdirectory, whose name
\* ends with a whitelisted extension.
C10_ExpansionOfEntries ==
    pc = "s_expand" =>
       images = EntriesExpansion(fsListing, SubSeq(args.images, 1, argIdx - 1))

\* the example directory followed by a file under "~"
C10_Witness ==
    /\ pc = "s_expand" /\ argIdx > Len(args.images)
    /\ fsListing = ExampleListing
    /\ args.images = <<DirA, <<N_tilde, N_y_png>> >>
    /\ images = <<DirA \o <<N_a_jpg>>, DirA \o <<N_b_png>>, DirA \o <<N_c_fits>>,
                  HomeDir \o <<N_y_png>> >>

\* how often x occurs in s
Count(s, x) == Cardinality({i \in 1..Len(s) : s[i] = x})

\* the paths an argument stands for
SegmentPaths(listing, arg) ==
    IF IsDir(listing, ExpandUser(arg))
    THEN ImagesIn(listing, ExpandUser(arg), {"file", "dir"})
    ELSE {ExpandUser(arg)}

\* C11 (as claimed): no path occurs more than once in the expanded image list.
C11_NoDuplicates ==
    pc = "s_expand" =>
       \A i, j \in 1..Len(images) : i # j => images[i] # images[j]

\* C11 (amended): a path occurs in the expanded image list once for every
\* argument that stands for it (itself, or as an entry of the directory it
\* names): no argument contributes a path twice, and a path that several
\* arguments reach is kept once per argument.
C11_OncePerArgument ==
    pc = "s_expand" =>
       \A i \in 1..Len(images) :
          Count(images, images[i]) =
             Cardinality({k \in 1..(argIdx - 1) :
                             images[i] \in SegmentPaths(fsListing, args.images[k])})

\* a directory and a file of it: the file is in the list twice
C11_Witness ==
    /\ pc = "s_expand" /\ argIdx > Len(args.images)
    /\ args.images = <<DirA, <<N_A, N_a_jpg>> >>
    /\ fsListing = <<File(N_b_png), File(N_a_jpg)>>
    /\ images = <<DirA \o <<N_a_jpg>>, DirA \o <<N_b_png>>, DirA \o <<N_a_jpg>> >>

\* C12 (as claimed): every CSV row recorded with success=false has its four
\* positional cells empty, whatever the solver's response carried.
C12_FailedRowsHaveNoPositions ==
    csvFile # "none" =>
       \A k \in 2..Len(fsCsv.rows) :
          fsCsv.rows[k][2] = "False" =>
             /\ fsCsv.rows[k][3] = "" /\ fsCsv.rows[k][4] = ""
             /\ fsCsv.rows[k][5] = "" /\ fsCsv.rows[k][6] = ""

\* the solver's response to call j carried a true success indicator
SaidSuccess(j) ==
    /\ solverCalls[j].outcome = "returned"
    /\ "success" \in DOMAIN solverCalls[j].response
    /\ solverCalls[j].response.success = "True"

\* C13: for every image already handled, the success recorded (the CSV cell,
\* and the SUCCESS line on the console) is true exactly when the solver
\* returned with a true success indicator; a return without one is reported
\* as FAILED, never as an error, and raises nothing; and a run that no
\* interrupt and no failing write ended has called the solver for every image.
C13_SuccessFromIndicator ==
    Solving =>
       /\ \A j \in 1..Len(solverCalls) :
             j < idx =>
                /\ OutcomeMsgs[j].tag = "SUCCESS" <=> SaidSuccess(j)
                /\ csvFile # "none" => (fsCsv.rows[j + 1][2] = "True" <=> SaidSuccess(j))
                /\ (solverCalls[j].outcome = "returned" /\ ~SaidSuccess(j)) =>
                      /\ OutcomeMsgs[j].tag = "FAILED"
                      /\ csvFile # "none" => fsCsv.rows[j + 1][2] = "False"
       /\ (pc = "s_record" /\ ~SaidSuccess(idx)) => exc = NoExc
       /\ (Ended /\ exc = NoExc) => Len(solverCalls) = Len(images)

\* a response without a success entry, recorded as failed, then another call
C13_Witness ==
    /\ Solving /\ Ended /\ CsvOn /\ exitCode = ExitOk
    /\ Len(solverCalls) = 2
    /\ solverCalls[1].outcome = "returned"
    /\ "success" \notin DOMAIN solverCalls[1].response
    /\ OutcomeMsgs[1].tag = "FAILED"
    /\ fsCsv.rows[2][2] = "False"
    /\ SaidSuccess(2)

\* C14: a solve run that fails a pre-flight check (database file missing, or
\* no image to solve) has loaded no database, called the solver for no image
\* and touched neither the CSV file nor any directory: the file is as it was
\* before the run, not created and not truncated; with the database missing
\* the run ends with the missing-database code before the images are expanded.
C14_PreflightFailureLeavesCsv ==
    /\ (Solving /\ exc.type = "SystemExit") =>
          /\ exc.code = (IF fsDb THEN ExitNoImages ELSE ExitDatabaseMissing)
          /\ dbLoads = 0
          /\ solverCalls = <<>>
          /\ csvFile = "none"
          /\ fsCsv = fs0.csv
          /\ fsDirs = fs0.dirs
    /\ (Solving /\ ~fsDb) =>
          /\ images = <<>> /\ argIdx = 1
          /\ pc \in {"main", "s_dbcheck", "m_unwind", "exit"}
          /\ Ended => exitCode = ExitDatabaseMissing

\* the database is missing, --csv names a file of an earlier run: it is kept
C14_Witness ==
    /\ Solving /\ Ended /\ ~fsDb /\ CsvOn
    /\ exitCode = ExitDatabaseMissing
    /\ fs0.csv = StaleFile /\ fsCsv = StaleFile

\* C15 (as claimed): a generate-db run that fails a catalog pre-flight check
\* has changed nothing in the file system; the parent directory of the output
\* path has not been created.
C15_PreflightFailureNoSideEffects ==
    (Generating /\ exc.type = "SystemExit") =>
       /\ fsDirs = fs0.dirs
       /\ ~fsOut

\* C16 (as claimed): every generation call is made with a working directory
\* that holds the file of the chosen catalog.
C16_CatalogWhereGenerationRuns ==
    Generating =>
       \A i \in 1..Len(genCalls) :
          <<genCalls[i].cwd, Required[genCalls[i].star_catalog]>> \in fsCat

\* the solver call the run owes to the j-th expanded image
OwedCall(j) ==
    [img |-> PathStr(images[j]), fov_estimate |-> args.fov_estimate,
     fov_max_error |-> args.fov_max_error, extract_dict |-> ParseExtractDict(args)]

\* C17: in a solve run the database is loaded at most once, exactly once as
\* soon as the pre-flight checks have passed and before any solver call; the
\* j-th solver call is the call for the j-th element of the expanded image
\* sequence, with the FOV estimate, FOV max error and extraction parameters
\* of the command line; no image is called twice (a failed or raising solve
\* is not retried), and when the loop has completed there is one call per
\* element, an element occurring twice being solved twice.
C17_OneLoadOneCallPerImage ==
    Solving =>
       /\ dbLoads \in {0, 1}
       /\ (pc \notin {"main", "s_dbcheck", "s_expand"} /\ exc.type # "SystemExit"
             /\ fsDb /\ images # <<>>) => dbLoads = 1
       /\ solverCalls # <<>> => dbLoads = 1
       /\ Len(solverCalls) <= Len(images)
       /\ \A j \in 1..Len(solverCalls) : solverCalls[j].call = OwedCall(j)
       /\ pc = "s_loop" => Len(solverCalls) = idx - 1
       /\ pc \in {"s_record", "s_except"} => Len(solverCalls) = idx
       /\ LoopCompleted => Len(solverCalls) = Len(images)

\* the same file given twice: solved twice, the raising first call not retried
C17_Witness ==
    /\ Solving /\ Ended /\ exitCode = ExitOk
    /\ dbLoads = 1
    /\ Len(images) = 2 /\ images[1] = images[2]
    /\ Len(solverCalls) = 2
    /\ solverCalls[1].outcome = "raised"
    /\ solverCalls[2].outcome = "returned"
    /\ solverCalls[2].response = [success |-> "False"]

\* the closing line of a solve run
Summary == Msg("[OK] Results saved to CSV")
IsSummary(m) == m = Summary
LeftSolve == pc \in {"m_return", "exit"}

\* the outcome line the run owes to the j-th image, given how its call ended
OwedOutcome(j) ==
    ImgMsg(IF solverCalls[j].outcome = "raised" THEN "ERROR during solve"
           ELSE IF SaidSuccess(j) THEN "SUCCESS" ELSE "FAILED",
           PathStr(images[j]))

\* every image has its outcome line, in the order of the images
EveryImageReported ==
    /\ Len(OutcomeMsgs) = Len(images)
    /\ \A j \in 1..Len(images) : OutcomeMsgs[j] = OwedOutcome(j)

\* C18 (as claimed): a solve run whose loop has completed has printed the
\* outcome of every image and, once it has left the solve command, a final
\* summary as its last line, with CSV logging and without it.
C18_SummaryInBothModes ==
    LoopCompleted =>
       /\ EveryImageReported
       /\ LeftSolve => console[Len(console)] = Summary

\* C18 (amended): a solve run whose loop has completed has printed the outcome
\* line of every image (SUCCESS, FAILED or ERROR), in image order, with CSV
\* logging and without it; the closing line is printed exactly when CSV
\* logging is enabled, once and after every outcome line; without CSV logging
\* the last line printed is the outcome of the last image.
C18_SummaryOnlyWithCsv ==
    LoopCompleted =>
       /\ EveryImageReported
       /\ pc = "s_finally" => Len(SelectSeq(console, IsSummary)) = 0
       /\ LeftSolve =>
             /\ Len(SelectSeq(console, IsSummary)) = (IF CsvOn THEN 1 ELSE 0)
             /\ console[Len(console)] =
                   (IF CsvOn THEN Summary ELSE OwedOutcome(Len(images)))

\* three images solved without CSV logging, one of each outcome, no closing line
C18_Witness ==
    /\ Solving /\ Ended /\ LoopCompleted /\ ~CsvOn
    /\ Len(images) = 3
    /\ {OutcomeMsgs[j].tag : j \in 1..Len(OutcomeMsgs)} = OutcomeTags
    /\ IsOutcomeMsg(console[Len(console)])

====
